---- MODULE Spec2Model ----
(***************************************************************************)
(* Model of the disaster-report Telegram bot (telegram_bot.py) and of the  *)
(* Flask/Supabase backend it posts to (app.py, supabase_client.py).        *)
(*                                                                         *)
(* One action per update handler of DisasterReportBot.  requests.post is   *)
(* synchronous, so the backend's create_report runs inside the handler     *)
(* that submits: it is part of that action.                                *)
(*                                                                         *)
(* Python dicts are functions whose DOMAIN is the set of keys present.     *)
(* Button labels are written without their leading emoji.  Coordinates     *)
(* are in whole degrees.                                                   *)
(***************************************************************************)
EXTENDS Integers, Sequences, FiniteSets, TLC

VARIABLES
    user_sessions,     \* DisasterReportBot.user_sessions: user id -> session
    reports,           \* table disaster_reports: the rows inserted, in order
    emergency_alerts,  \* table emergency_alerts: the rows inserted, in order
    alert_calls,       \* report ids trigger_emergency_alert was called with
    now,               \* the clock datetime.now() reads
    last,              \* the update handled last, and what it was answered
    lastActivityAt,    \* per user: when the last update from the user was handled
    std,               \* per user: the Standard-path inputs accepted so far
    suspended          \* the handle_photo call waiting at its await, or <<>>

vars == <<user_sessions, reports, emergency_alerts, alert_calls, now, last,
          lastActivityAt, std, suspended>>

----------------------------------------------------------------------------
(* Bounds of the model *)

MaxPhotos == 2     \* photos accepted into one draft
MaxClock == 2      \* ticks of the clock
ExpiryWindow == 1  \* idle ticks after which the spec calls a session expired

Users == {1001}
PhotoIds == {"p1", "p2"}

\* The ids uuid4 draws from.  No report is started once all of them are stored.
ReportIds == {"3F2A9C1B"}

----------------------------------------------------------------------------
(* Program constants *)

DISASTER_TYPES ==
    <<"Earthquake", "Flood", "Fire", "Landslide", "Cyclone",
      "Accident", "Medical Emergency", "Other">>

SEVERITY_LEVELS == <<"Low", "Medium", "High", "Critical">>

\* required_fields without the two coordinates.
required_fields_without_location == <<"user_id", "disaster_type", "severity">>

required_fields == <<"user_id", "disaster_type", "severity", "latitude", "longitude">>

\* valid_statuses with one more status let through.
valid_statuses_with_deleted ==
    <<"Pending", "In Progress", "Resolved", "Cancelled", "Deleted">>

valid_statuses == <<"Pending", "In Progress", "Resolved", "Cancelled">>

Range(s) == {s[i] : i \in DOMAIN s}

\* The labels handle_message dispatches on before it looks at the session.
ReportLabel == "Report Disaster"
EmergencyLabel == "Emergency"
HelpLabel == "Help"
MyReportsLabel == "My Reports"
MenuLabels == {ReportLabel, EmergencyLabel, HelpLabel, MyReportsLabel}

----------------------------------------------------------------------------
(* Python dict and string operations *)

Put(d, k, v) == [x \in (DOMAIN d) \cup {k} |-> IF x = k THEN v ELSE d[x]]
Get(d, k, default) == IF k \in DOMAIN d THEN d[k] ELSE default
Del(d, k) == [x \in (DOMAIN d) \ {k} |-> d[x]]

\* A callback payload is its text cut into tokens, <<"type_", "Flood">> for
\* "type_Flood".
RECURSIVE Concat(_)
Concat(toks) == IF toks = <<>> THEN "" ELSE Head(toks) \o Concat(Tail(toks))

startswith(data, prefix) == Len(data) > 0 /\ data[1] = prefix

\* data.replace(prefix, ''): every occurrence of the prefix goes.
replace(data, prefix) == Concat(SelectSeq(data, LAMBDA t : t # prefix))

\* str(user_id)
str(n) == CASE n = 1001 -> "1001"
            [] n = 1002 -> "1002"
            [] OTHER -> "0"

\* update.effective_user.username
username(u) == CASE u = 1001 -> "asha"
                 [] OTHER -> "ravi"

\* json.dumps of a list: the JSON text is kept as the list it encodes, tagged.
json_dumps(list) == [json |-> list]

\* float() of a number Telegram delivered as a float
float(x) == x

----------------------------------------------------------------------------
(* Backend: supabase_client.py and app.py *)

\* The ids of the rows stored (the table's primary key).
stored_ids(db) == {db[i].id : i \in DOMAIN db}

\* The keys db_data reads with report_data[...]: a KeyError when one is missing.
db_data_keys == {"user_id", "disaster_type", "severity", "latitude", "longitude"}

\* db_data with the two coordinates taken from each other's key.
db_data_swapped(report_data, id, t) ==
    [id |-> id,
     user_id |-> str(report_data["user_id"]),
     username |-> Get(report_data, "username", "Anonymous"),
     disaster_type |-> report_data["disaster_type"],
     severity |-> report_data["severity"],
     latitude |-> float(report_data["longitude"]),
     longitude |-> float(report_data["latitude"]),
     description |-> Get(report_data, "description", ""),
     photos |-> json_dumps(Get(report_data, "photos", <<>>)),
     status |-> "Pending",
     source |-> "Telegram Bot",
     created_at |-> t,
     updated_at |-> t]

\* DisasterReportService.create_report: the row prepared for insertion.
db_data(report_data, id, t) ==
    [id |-> id,
     user_id |-> str(report_data["user_id"]),
     username |-> Get(report_data, "username", "Anonymous"),
     disaster_type |-> report_data["disaster_type"],
     severity |-> report_data["severity"],
     latitude |-> float(report_data["latitude"]),
     longitude |-> float(report_data["longitude"]),
     description |-> Get(report_data, "description", ""),
     photos |-> json_dumps(Get(report_data, "photos", <<>>)),
     status |-> "Pending",
     source |-> "Telegram Bot",
     created_at |-> t,
     updated_at |-> t]

\* DisasterReportService.create_report.  id is the report id uuid4 gave; insert
\* is the outcome of the Supabase insert: "ok" (result.data holds the row) or
\* "fail" (no data, or it raised).  An id already stored, or a key missing from
\* report_data, raises inside the try: success False.
DisasterReportService_create_report(report_data, db, id, insert, t) ==
    IF /\ db_data_keys \subseteq DOMAIN report_data
       /\ id \notin stored_ids(db)
       /\ insert = "ok"
    THEN LET row == db_data(report_data, id, t)
         IN  [success |-> TRUE, id |-> row.id, data |-> row,
              reports |-> Append(db, row)]
    ELSE [success |-> FALSE, reports |-> db]

\* The row trigger_emergency_alert inserts into emergency_alerts.
alert_data(report_data, t) ==
    [report_id |-> report_data.id,
     alert_type |-> "Critical Disaster Report",
     severity |-> report_data.severity,
     location |-> <<report_data.latitude, report_data.longitude>>,
     disaster_type |-> report_data.disaster_type,
     description |-> report_data.description,
     status |-> "Active",
     created_at |-> t]

\* trigger_emergency_alert without its try/except: a failed insert is raised.
trigger_emergency_alert_raising(report_data, alerts, alert, t) ==
    IF alert = "ok"
    THEN [success |-> TRUE, raised |-> FALSE,
          emergency_alerts |-> Append(alerts, alert_data(report_data, t))]
    ELSE [success |-> FALSE, raised |-> TRUE, emergency_alerts |-> alerts]

\* EmergencyNotificationService.trigger_emergency_alert.  alert is the outcome
\* of the insert into emergency_alerts.  Its try/except turns every failure
\* into a returned dict: nothing is raised to the caller.
trigger_emergency_alert(report_data, alerts, alert, t) ==
    IF alert = "ok"
    THEN [success |-> TRUE, raised |-> FALSE,
          emergency_alerts |-> Append(alerts, alert_data(report_data, t))]
    ELSE [success |-> FALSE, raised |-> FALSE, emergency_alerts |-> alerts]

\* The alert test widened to the two highest severities.
is_high_or_critical(data) == data["severity"] \in {"High", "Critical"}

\* app.create_report: "if data['severity'] == 'Critical'"
is_critical(data) == data["severity"] = "Critical"

\* create_report calling the alert trigger on the request's severity before
\* the insert is attempted.
create_report_alert_first(data, db, alerts, calls, id, insert, alert, t) ==
    IF \E f \in Range(required_fields) : f \notin DOMAIN data
    THEN [status |-> 400, id |-> <<>>, reports |-> db,
          emergency_alerts |-> alerts, alert_calls |-> calls, alert |-> "none"]
    ELSE LET critical == is_critical(data)
             a == IF critical
                  THEN trigger_emergency_alert(db_data(data, id, t), alerts, alert, t)
                  ELSE [success |-> TRUE, raised |-> FALSE,
                        emergency_alerts |-> alerts]
             result == DisasterReportService_create_report(data, db, id, insert, t)
         IN  [status |-> IF result.success THEN 201 ELSE 500,
              id |-> IF result.success THEN <<result.id>> ELSE <<>>,
              reports |-> result.reports,
              emergency_alerts |-> a.emergency_alerts,
              alert_calls |-> IF critical THEN Append(calls, id) ELSE calls,
              alert |-> IF critical THEN alert ELSE "none"]

\* app.create_report (POST /api/reports) on the request body data.  The result
\* holds the HTTP status, the 'id' of the JSON answer (<<>> when it has none)
\* and the tables afterwards.
create_report(data, db, alerts, calls, id, insert, alert, t) ==
    IF \E f \in Range(required_fields) : f \notin DOMAIN data
    THEN [status |-> 400, id |-> <<>>, reports |-> db,
          emergency_alerts |-> alerts, alert_calls |-> calls, alert |-> "none"]
    ELSE LET result == DisasterReportService_create_report(data, db, id, insert, t)
         IN  IF ~result.success
             THEN [status |-> 500, id |-> <<>>, reports |-> db,
                   emergency_alerts |-> alerts, alert_calls |-> calls,
                   alert |-> "none"]
             ELSE IF is_critical(data)
             THEN LET a == trigger_emergency_alert(result.data, alerts, alert, t)
                  IN  [status |-> IF a.raised THEN 500 ELSE 201,
                       id |-> IF a.raised THEN <<>> ELSE <<result.id>>,
                       reports |-> result.reports,
                       emergency_alerts |-> a.emergency_alerts,
                       alert_calls |-> Append(calls, result.data.id),
                       alert |-> alert]
             ELSE [status |-> 201, id |-> <<result.id>>,
                   reports |-> result.reports, emergency_alerts |-> alerts,
                   alert_calls |-> calls, alert |-> "none"]

\* DisasterReportService.update_report_status.  update is the outcome of the
\* Supabase update: "ok", or "fail" (it raised).  result.data is empty when no
\* row has the id.
DisasterReportService_update_report_status(report_id, status, db, update, t) ==
    IF update = "ok" /\ report_id \in stored_ids(db)
    THEN [success |-> TRUE,
          reports |-> [i \in DOMAIN db |->
                          IF db[i].id = report_id
                          THEN [db[i] EXCEPT !.status = status, !.updated_at = t]
                          ELSE db[i]]]
    ELSE [success |-> FALSE, reports |-> db]

\* app.update_report_status (PUT /api/reports/<report_id>/status) on the
\* request body data; data.get('status') of a body without the key is falsy,
\* like the empty string.
update_report_status(report_id, data, db, update, t) ==
    LET new_status == Get(data, "status", "")
    IN  IF new_status = "" \/ new_status \notin Range(valid_statuses)
        THEN [status |-> 400, reports |-> db]
        ELSE LET result == DisasterReportService_update_report_status(
                               report_id, new_status, db, update, t)
             IN  IF result.success
                 THEN [status |-> 200, reports |-> result.reports]
                 ELSE [status |-> 404, reports |-> db]

----------------------------------------------------------------------------
(* What the users and the transport may send *)

CallbackData ==
    {<<"type_", "Flood">>, <<"type_", "Volcano">>,
     <<"severity_", "High">>, <<"severity_", "Critical">>,
     <<"refresh">>}

Locations == {[latitude |-> 12, longitude |-> 77]}

Texts ==
    MenuLabels \cup {"Skip Description", "Skip Photos", "Submit Report", "Cancel",
                     "street flooded"}

Outcomes == {"ok", "fail"}

----------------------------------------------------------------------------
(* Bookkeeping of the update being handled *)

\* The updates that start a report: /report and /emergency, or their buttons.
IsStart(kind) == kind \in {"report", "emergency"}

pre_step(u) == IF u \in DOMAIN user_sessions THEN user_sessions[u].step ELSE "none"

\* Whether the update (kind, arg) is the one the Standard path
\*   start, type, severity, location, description text, photos, 'Submit Report'
\* expects after the inputs p accepted so far.  The 'Skip Description' button
\* is not a description text, and a photo whose file could not be fetched
\* (kind "photo_lost") is not a photo sent.
expected(p, kind, arg) ==
    CASE Len(p) = 1 -> /\ kind = "callback" /\ Len(arg) = 2
                       /\ arg[1] = "type_"
                       /\ arg[2] \in Range(DISASTER_TYPES)
      [] Len(p) = 2 -> /\ kind = "callback" /\ Len(arg) = 2
                       /\ arg[1] = "severity_"
                       /\ arg[2] \in Range(SEVERITY_LEVELS)
      [] Len(p) = 3 -> kind = "location"
      [] Len(p) = 4 -> kind = "message" /\ arg # "Skip Description"
      [] OTHER -> /\ p[Len(p)].kind # "submit"
                  /\ \/ kind = "photo"
                     \/ kind = "submit"

advance(p, kind, arg) ==
    IF kind = "report" THEN <<[kind |-> "report", arg |-> arg]>>
    ELSE IF p # <<>> /\ expected(p, kind, arg)
         THEN Append(p, [kind |-> kind, arg |-> arg])
         ELSE <<>>

Recorded(u, kind, arg, reply, request, status, id, alert) ==
    /\ last' = [user |-> u, kind |-> kind, arg |-> arg, pre |-> pre_step(u),
                reply |-> reply, request |-> request, status |-> status,
                id |-> id, alert |-> alert, idle |-> now - lastActivityAt[u]]
    /\ lastActivityAt' = [lastActivityAt EXCEPT ![u] = now]
    /\ std' = [std EXCEPT ![u] = advance(std[u], kind, arg)]

\* What a handler that ran to its end leaves of a suspended handle_photo call
\* of the same user: the session object that call holds is no longer the one
\* stored once a start assigned a new session or submit_report deleted it.
after_update(pending, u, kind, request) ==
    IF pending # <<>> /\ pending.user = u /\ (IsStart(kind) \/ request # <<>>)
    THEN [pending EXCEPT !.stale = TRUE]
    ELSE pending

Handled(u, kind, arg, reply, request, status, id, alert) ==
    /\ Recorded(u, kind, arg, reply, request, status, id, alert)
    /\ suspended' = after_update(suspended, u, kind, request)

\* A handler that ends without a request to the backend's report endpoint.
Answer(u, kind, arg, sessions, reply) ==
    /\ user_sessions' = sessions
    /\ UNCHANGED <<reports, emergency_alerts, alert_calls, now>>
    /\ Handled(u, kind, arg, reply, <<>>, 0, <<>>, "none")

----------------------------------------------------------------------------
(* telegram_bot.py: DisasterReportBot *)

\* submit_report without its finally block: the session stays.
keep_session(sessions, u, status) == sessions

\* The session cleared in the except branch only, and kept after a success.
clear_session_on_failure(sessions, u, status) ==
    IF status = 201 THEN sessions ELSE Del(sessions, u)

\* The session cleared in the success branch only, not in a finally block.
clear_session_on_success(sessions, u, status) ==
    IF status = 201 THEN Del(sessions, u) ELSE sessions

\* submit_report's finally block: the session goes whatever the response was.
clear_session(sessions, u, status) == Del(sessions, u)

\* submit_report, called with the sessions as its caller left them.  net is
\* whether requests.post reached the backend ("fail": it raised).
submit_report(u, kind, arg, sessions, emergency, net, id, insert, alert) ==
    IF u \notin DOMAIN sessions
    THEN Answer(u, kind, arg, sessions, "none")
    ELSE LET report_data == sessions[u].report_data
             response ==
                 IF net = "ok"
                 THEN create_report(report_data, reports, emergency_alerts,
                                    alert_calls, id, insert, alert, now)
                 ELSE [status |-> -1, id |-> <<>>, reports |-> reports,
                       emergency_alerts |-> emergency_alerts,
                       alert_calls |-> alert_calls, alert |-> "none"]
         IN  /\ user_sessions' = clear_session(sessions, u, response.status)
             /\ reports' = response.reports
             /\ emergency_alerts' = response.emergency_alerts
             /\ alert_calls' = response.alert_calls
             /\ UNCHANGED now
             /\ Handled(u, kind, arg,
                        IF response.status = 201 THEN "report_submitted"
                                                 ELSE "submit_error",
                        <<report_data>>, response.status, response.id,
                        response.alert)

\* /start
start(u) == Answer(u, "start", "/start", user_sessions, "welcome")

\* /help, or the Help button
help_command(u, via) == Answer(u, "help", via, user_sessions, "help")

\* /status, or the My Reports button: GET /api/reports/user/<user_id>
show_user_reports(u, via) ==
    \E fetch \in {"ok", "fail", "down"} :
        Answer(u, "status", via, user_sessions,
               CASE fetch = "down" -> "fetch_error"
                 [] fetch = "fail" -> "fetch_unable"
                 [] OTHER ->
                      IF \E i \in DOMAIN reports : reports[i].user_id = str(u)
                      THEN "recent_reports" ELSE "no_reports")

\* start_report filling in the session the user already has (setdefault and
\* update) in place of assigning a new one.
start_report_keeping_draft(u, via) ==
    /\ ReportIds \ stored_ids(reports) # {}
    /\ LET old == IF u \in DOMAIN user_sessions
                  THEN user_sessions[u].report_data ELSE <<>>
       IN  Answer(u, "report", via,
                  Put(user_sessions, u,
                      [step |-> "disaster_type",
                       report_data |->
                           Put(Put(Put(old, "user_id", u), "username", username(u)),
                               "timestamp", now)]),
                  "type_prompt")

\* /report, or the Report Disaster button
start_report(u, via) ==
    /\ ReportIds \ stored_ids(reports) # {}
    /\ Answer(u, "report", via,
              Put(user_sessions, u,
                  [step |-> "disaster_type",
                   report_data |-> [user_id |-> u, username |-> username(u),
                                    timestamp |-> now]]),
              "type_prompt")

\* /emergency, or the Emergency button
emergency_report(u, via) ==
    /\ ReportIds \ stored_ids(reports) # {}
    /\ Answer(u, "emergency", via,
              Put(user_sessions, u,
                  [step |-> "emergency_location",
                   report_data |-> [user_id |-> u, username |-> username(u),
                                    disaster_type |-> "Emergency",
                                    severity |-> "Critical",
                                    timestamp |-> now]]),
              "emergency_location_prompt")

\* CallbackQueryHandler
button_callback(u, data) ==
    IF u \notin DOMAIN user_sessions
    THEN Answer(u, "callback", data, user_sessions, "session_expired")
    ELSE LET session == user_sessions[u]
         IN  IF startswith(data, "type_")
             THEN Answer(u, "callback", data,
                         Put(user_sessions, u,
                             [step |-> "severity",
                              report_data |-> Put(session.report_data, "disaster_type",
                                                  replace(data, "type_"))]),
                         "severity_prompt")
             ELSE IF startswith(data, "severity_")
             THEN Answer(u, "callback", data,
                         Put(user_sessions, u,
                             [step |-> "location",
                              report_data |-> Put(session.report_data, "severity",
                                                  replace(data, "severity_"))]),
                         \* the prompt reads report_data['disaster_type']: a
                         \* KeyError when it is not set, after the session changed
                         IF "disaster_type" \in DOMAIN session.report_data
                         THEN "location_prompt" ELSE "none")
             ELSE Answer(u, "callback", data, user_sessions, "none")

\* handle_location taking a missing session for a fresh one (setdefault).
location_creates_session(u, location) ==
    Answer(u, "location", location,
           Put(user_sessions, u,
               [step |-> "description",
                report_data |-> [latitude |-> location.latitude,
                                 longitude |-> location.longitude]]),
           "description_prompt")

\* handle_location writing into a draft that every session shares (one dict
\* object handed to all sessions) in place of the user's own.
handle_location_shared_draft(u, location) ==
    IF u \notin DOMAIN user_sessions
    THEN Answer(u, "location", location, user_sessions, "session_expired")
    ELSE Answer(u, "location", location,
                [v \in DOMAIN user_sessions |->
                    [step |-> IF v = u THEN "description" ELSE user_sessions[v].step,
                     report_data |->
                         Put(Put(user_sessions[v].report_data,
                                 "latitude", location.latitude),
                             "longitude", location.longitude)]],
                "description_prompt")

\* handle_location's answer to a user who has no session
location_without_session(u, location) ==
    Answer(u, "location", location, user_sessions, "session_expired")

\* MessageHandler(filters.LOCATION)
handle_location(u, location) ==
    IF u \notin DOMAIN user_sessions
    THEN location_without_session(u, location)
    ELSE LET session == user_sessions[u]
             moved == [step |-> "description",
                       report_data |->
                           Put(Put(session.report_data, "latitude", location.latitude),
                               "longitude", location.longitude)]
             sessions == Put(user_sessions, u, moved)
         IN  \* the step was overwritten three lines before this test reads it
             IF moved.step = "emergency_location"
             THEN \E net \in Outcomes, id \in ReportIds,
                     insert \in Outcomes, alert \in Outcomes :
                      submit_report(u, "location", location, sessions, TRUE,
                                    net, id, insert, alert)
             ELSE Answer(u, "location", location, sessions, "description_prompt")

\* The description with a prefix put before the text when it is stored.
description_labelled(text) ==
    IF text = "Skip Description" THEN "No description provided"
    ELSE "Description: " \o text

\* handle_message at step 'description': the description a text stands for.
description_of(text) ==
    IF text = "Skip Description" THEN "No description provided" ELSE text

\* The 'Skip Photos' button taken for a submission too.
is_submit_or_skip_photos(text) == text \in {"Submit Report", "Skip Photos"}

\* handle_message: elif text == "Submit Report"
is_submit(text) == text = "Submit Report"

\* MessageHandler(filters.TEXT & ~filters.COMMAND)
handle_message(u, text) ==
    CASE text = ReportLabel -> start_report(u, text)
      [] text = EmergencyLabel -> emergency_report(u, text)
      [] text = HelpLabel -> help_command(u, text)
      [] text = MyReportsLabel -> show_user_reports(u, text)
      [] OTHER ->
           IF u \notin DOMAIN user_sessions
           THEN Answer(u, "message", text, user_sessions, "use_start")
           ELSE LET session == user_sessions[u]
                IN  IF session.step = "description"
                    THEN Answer(u, "message", text,
                                Put(user_sessions, u,
                                    [step |-> "photos",
                                     report_data |->
                                         Put(session.report_data, "description",
                                             description_of(text))]),
                                "photos_prompt")
                    ELSE IF is_submit(text)
                    THEN \E net \in Outcomes, id \in ReportIds,
                            insert \in Outcomes, alert \in Outcomes :
                             submit_report(u, "submit", text, user_sessions, FALSE,
                                           net, id, insert, alert)
                    ELSE Answer(u, "message", text, user_sessions, "none")

\* context.bot.get_file's file_path for a file id
file_path(file_id) == "photos/" \o file_id

\* The new photo put before the ones the draft holds (insert(0, ...)).
add_photo_first(photos, photo) == <<photo>> \o photos

\* handle_photo: report_data['photos'].append(...)
add_photo(photos, photo) == Append(photos, photo)

\* MessageHandler(filters.PHOTO).  got is the outcome of context.bot.get_file.
handle_photo(u, file_id) ==
    IF u \notin DOMAIN user_sessions
    THEN Answer(u, "photo", file_id, user_sessions, "none")
    ELSE LET session == user_sessions[u]
             photos == Get(session.report_data, "photos", <<>>)
         IN  IF session.step = "photos"
             THEN /\ Len(photos) < MaxPhotos
                  /\ \E got \in Outcomes :
                       IF got = "ok"
                       THEN Answer(u, "photo", file_id,
                                   Put(user_sessions, u,
                                       [step |-> session.step,
                                        report_data |->
                                            Put(session.report_data, "photos",
                                                add_photo(photos,
                                                          [file_id |-> file_id,
                                                           file_path |-> file_path(file_id)]))]),
                                   "photo_received")
                       ELSE \* get_file raised: the photo is lost
                            Answer(u, "photo_lost", file_id, user_sessions, "none")
             ELSE Answer(u, "photo", file_id, user_sessions, "none")

\* handle_photo up to its await: the session is looked up and its step is
\* tested, then the call waits for context.bot.get_file holding the session
\* object.  Without a session, or at another step, it returns at once.
photo_begin(u, file_id) ==
    /\ suspended = <<>>
    /\ IF u \in DOMAIN user_sessions /\ user_sessions[u].step = "photos"
       THEN /\ Len(Get(user_sessions[u].report_data, "photos", <<>>)) < MaxPhotos
            /\ suspended' = [user |-> u, file_id |-> file_id, stale |-> FALSE]
            /\ UNCHANGED <<user_sessions, reports, emergency_alerts, alert_calls,
                           now, last, lastActivityAt, std>>
       ELSE Answer(u, "photo", file_id, user_sessions, "none")

\* handle_photo from its await on: the entry is appended to the session
\* object the call holds, which is the stored session unless it was replaced
\* or deleted meanwhile, and the photo is acknowledged; the step is not read
\* again.
photo_end ==
    /\ suspended # <<>>
    /\ LET u == suspended.user
           file_id == suspended.file_id
       IN  \E got \in Outcomes :
             /\ suspended' = <<>>
             /\ UNCHANGED <<reports, emergency_alerts, alert_calls, now>>
             /\ IF got = "fail"
                THEN /\ user_sessions' = user_sessions
                     /\ Recorded(u, "photo_lost", file_id, "none", <<>>, 0, <<>>, "none")
                ELSE IF suspended.stale
                THEN /\ user_sessions' = user_sessions
                     /\ Recorded(u, "photo_stale", file_id, "photo_received",
                                 <<>>, 0, <<>>, "none")
                ELSE LET session == user_sessions[u]
                         photos == Get(session.report_data, "photos", <<>>)
                     IN  /\ user_sessions' =
                                Put(user_sessions, u,
                                    [step |-> session.step,
                                     report_data |->
                                         Put(session.report_data, "photos",
                                             add_photo(photos,
                                                       [file_id |-> file_id,
                                                        file_path |-> file_path(file_id)]))])
                         /\ Recorded(u, "photo", file_id, "photo_received",
                                     <<>>, 0, <<>>, "none")

\* The application taking every update as it arrives (concurrent_updates on).
may_dispatch_concurrently(pending) == TRUE

\* Application.builder().token(...).build(): concurrent_updates is off, so an
\* update is taken up when the handler of the one before it has returned.
may_dispatch(pending) == pending = <<>>

\* The clock advances between updates.
Tick ==
    /\ now < MaxClock
    /\ now' = now + 1
    /\ UNCHANGED <<user_sessions, reports, emergency_alerts, alert_calls, last,
                   lastActivityAt, std, suspended>>

\* PUT /api/reports/<report_id>/status from a client, with the body data.
api_update_report_status(report_id, data) ==
    \E update \in Outcomes :
        LET response == update_report_status(report_id, data, reports, update, now)
        IN  /\ reports' = response.reports
            /\ last' = [user |-> 0, kind |-> "api_status",
                        arg |-> [report_id |-> report_id, data |-> data],
                        pre |-> "none", reply |-> "none", request |-> <<>>,
                        status |-> response.status, id |-> <<>>,
                        alert |-> "none", idle |-> 0]
            /\ UNCHANGED <<user_sessions, emergency_alerts, alert_calls, now,
                           lastActivityAt, std, suspended>>

\* POST /api/reports from a client other than the bot, with the body data.
api_create_report(data) ==
    \E id \in ReportIds, insert \in Outcomes, alert \in Outcomes :
        LET response == create_report(data, reports, emergency_alerts,
                                      alert_calls, id, insert, alert, now)
        IN  /\ reports' = response.reports
            /\ emergency_alerts' = response.emergency_alerts
            /\ alert_calls' = response.alert_calls
            /\ last' = [user |-> 0, kind |-> "api", arg |-> "", pre |-> "none",
                        reply |-> "none", request |-> <<data>>,
                        status |-> response.status, id |-> response.id,
                        alert |-> response.alert, idle |-> 0]
            /\ UNCHANGED <<user_sessions, now, lastActivityAt, std, suspended>>

----------------------------------------------------------------------------
(* Specifications *)

Init ==
    /\ user_sessions = <<>>
    /\ reports = <<>>
    /\ emergency_alerts = <<>>
    /\ alert_calls = <<>>
    /\ now = 0
    /\ last = [user |-> 0, kind |-> "none", arg |-> "", pre |-> "none",
               reply |-> "none", request |-> <<>>, status |-> 0, id |-> <<>>,
               alert |-> "none", idle |-> 0]
    /\ lastActivityAt = [u \in Users |-> 0]
    /\ std = [u \in Users |-> <<>>]
    /\ suspended = <<>>

Next ==
    \E u \in Users :
        \/ start(u)
        \/ help_command(u, "/help")
        \/ show_user_reports(u, "/status")
        \/ start_report(u, "/report")
        \/ emergency_report(u, "/emergency")
        \/ \E data \in CallbackData : button_callback(u, data)
        \/ \E location \in Locations : handle_location(u, location)
        \/ \E text \in Texts : handle_message(u, text)
        \/ \E file_id \in PhotoIds : handle_photo(u, file_id)

Spec == Init /\ [][Next]_vars

\* The same program with time passing between the updates, over fewer inputs.
ClockCallbackData == {<<"type_", "Flood">>, <<"severity_", "High">>}
ClockTexts == {ReportLabel, HelpLabel, "street flooded", "Submit Report"}

NextClock ==
    \/ Tick
    \/ \E u \in Users :
        \/ start(u)
        \/ emergency_report(u, "/emergency")
        \/ \E data \in ClockCallbackData : button_callback(u, data)
        \/ \E location \in Locations : handle_location(u, location)
        \/ \E text \in ClockTexts : handle_message(u, text)
        \/ handle_photo(u, "p1")

SpecClock == Init /\ [][NextClock]_vars

\* Two users whose updates interleave, each sending values of their own; the
\* second one never presses a severity button.
TwoUsers == {1001, 1002}

Supplied(u) ==
    IF u = 1001
    THEN [data |-> {<<"type_", "Flood">>, <<"severity_", "High">>},
          location |-> [latitude |-> 12, longitude |-> 77],
          texts |-> {"street flooded", "Submit Report"}, file_id |-> "p1"]
    ELSE [data |-> {<<"type_", "Fire">>},
          location |-> [latitude |-> 48, longitude |-> 2],
          texts |-> {"bridge down", "Submit Report"}, file_id |-> "p2"]

InitTwo ==
    /\ user_sessions = <<>>
    /\ reports = <<>>
    /\ emergency_alerts = <<>>
    /\ alert_calls = <<>>
    /\ now = 0
    /\ last = [user |-> 0, kind |-> "none", arg |-> "", pre |-> "none",
               reply |-> "none", request |-> <<>>, status |-> 0, id |-> <<>>,
               alert |-> "none", idle |-> 0]
    /\ lastActivityAt = [u \in TwoUsers |-> 0]
    /\ std = [u \in TwoUsers |-> <<>>]
    /\ suspended = <<>>

NextTwo ==
    \E u \in TwoUsers :
        \/ start_report(u, "/report")
        \/ \E data \in Supplied(u).data : button_callback(u, data)
        \/ handle_location(u, Supplied(u).location)
        \/ \E text \in Supplied(u).texts : handle_message(u, text)
        \/ handle_photo(u, Supplied(u).file_id)

SpecTwo == InitTwo /\ [][NextTwo]_vars

\* The program open to what any client may send: coordinates out of range,
\* and requests posted to the backend directly.
CompleteBody ==
    [user_id |-> 1001, disaster_type |-> "Flood", severity |-> "High",
     latitude |-> 12, longitude |-> 77]

OpenBodies == {CompleteBody} \cup {Del(CompleteBody, f) : f \in DOMAIN CompleteBody}

OpenLocations == Locations \cup {[latitude |-> 95, longitude |-> 200]}

StatusBodies ==
    {<<>>} \cup {[status |-> v] : v \in {"", "Deleted", "Resolved", "Cancelled"}}

StatusReportIds == ReportIds \cup {"00000000"}

NextOpen ==
    \/ \E data \in OpenBodies : api_create_report(data)
    \/ \E report_id \in StatusReportIds, data \in StatusBodies :
           api_update_report_status(report_id, data)
    \/ \E u \in Users :
        \/ start_report(u, "/report")
        \/ emergency_report(u, "/emergency")
        \/ \E data \in ClockCallbackData : button_callback(u, data)
        \/ \E location \in OpenLocations : handle_location(u, location)
        \/ \E text \in ClockTexts : handle_message(u, text)
        \/ handle_photo(u, "p1")

SpecOpen == Init /\ [][NextOpen]_vars

\* The program with handle_photo in its two parts, around the await.
NextPhoto ==
    \/ photo_end
    \/ \E u \in Users :
        \/ may_dispatch(suspended) /\ start_report(u, "/report")
        \/ may_dispatch(suspended) /\ emergency_report(u, "/emergency")
        \/ \E data \in ClockCallbackData :
               may_dispatch(suspended) /\ button_callback(u, data)
        \/ \E location \in Locations :
               may_dispatch(suspended) /\ handle_location(u, location)
        \/ \E text \in ClockTexts :
               may_dispatch(suspended) /\ handle_message(u, text)
        \/ \E file_id \in PhotoIds :
               may_dispatch(suspended) /\ photo_begin(u, file_id)

SpecPhoto == Init /\ [][NextPhoto]_vars

----------------------------------------------------------------------------
(* Vocabulary of the claims *)

\* The answers given to a user who has no session.
NoSessionReplies == {"session_expired", "use_start"}

\* A step of the program, as against the clock ticking: it handled an update
\* of user u.
UpdateOf(u) == now' = now /\ last'.user = u

\* The value a payload <<prefix, value>> selects.
Selected(data) == data[2]

\* What each step of the dialog expects of an update.
StepExpects(step, kind, arg) ==
    CASE step = "disaster_type" ->
             /\ kind = "callback" /\ Len(arg) = 2 /\ arg[1] = "type_"
             /\ Selected(arg) \in Range(DISASTER_TYPES)
      [] step = "severity" ->
             /\ kind = "callback" /\ Len(arg) = 2 /\ arg[1] = "severity_"
             /\ Selected(arg) \in Range(SEVERITY_LEVELS)
      [] step \in {"location", "emergency_location"} -> kind = "location"
      [] step = "description" -> kind = "message"
      [] step = "photos" -> kind \in {"photo", "photo_lost", "submit"}
      [] OTHER -> FALSE

\* The order of the Standard path's steps.
StepRank(step) ==
    CASE step = "disaster_type" -> 1
      [] step = "severity" -> 2
      [] step = "location" -> 3
      [] step = "description" -> 4
      [] step = "photos" -> 5
      [] OTHER -> 0

----------------------------------------------------------------------------
(* Claims *)

\* C1: the location that follows an emergency start is submitted at once, as
\* disaster_type 'Emergency' and severity 'Critical', and the session is not
\* left waiting at step 'description'.
C1_EmergencyLocationSubmits ==
    (last.kind = "location" /\ last.pre = "emergency_location") =>
        /\ last.request # <<>>
        /\ last.request[1]["disaster_type"] = "Emergency"
        /\ last.request[1]["severity"] = "Critical"
        /\ ~ (/\ last.user \in DOMAIN user_sessions
              /\ user_sessions[last.user].step = "description")

C3_MismatchLeavesSession ==
    [][ \A u \in Users :
          ( /\ UpdateOf(u)
            /\ u \in DOMAIN user_sessions
            /\ ~ IsStart(last'.kind)
            /\ ~ StepExpects(user_sessions[u].step, last'.kind, last'.arg) ) =>
          ( /\ u \in DOMAIN user_sessions'
            /\ user_sessions'[u] = user_sessions[u] )
      ]_vars

\* C4: within a session the step never moves backward in the order
\* disaster_type < severity < location < description < photos; only a start
\* or the removal of the session lowers it.
C4_StepNeverMovesBackward ==
    [][ \A u \in Users :
          ( /\ UpdateOf(u)
            /\ ~ IsStart(last'.kind)
            /\ u \in DOMAIN user_sessions
            /\ u \in DOMAIN user_sessions'
            /\ StepRank(user_sessions[u].step) > 0
            /\ StepRank(user_sessions'[u].step) > 0 ) =>
          StepRank(user_sessions'[u].step) >= StepRank(user_sessions[u].step)
      ]_vars

\* C5: the text 'Cancel' sent at any step of an active session removes the
\* session and discards the draft without submitting it.
C5_CancelRemovesSession ==
    (last.kind = "message" /\ last.arg = "Cancel" /\ last.pre # "none") =>
        /\ last.user \notin DOMAIN user_sessions
        /\ last.request = <<>>

\* C6: a Standard-path sequence (start, type, severity, location, description
\* text, photos, 'Submit Report') that the backend accepts stores a report
\* whose disaster_type, severity, latitude, longitude and description are the
\* values supplied, whose photos are the photos sent, in order, and whose
\* status is 'Pending'.
C6_StandardPathReportStored ==
    \A u \in Users :
        LET p == std[u]
            n == Len(p)
        IN  (n >= 6 /\ p[n].kind = "submit" /\ last.user = u /\ last.status = 201) =>
            /\ Len(reports) > 0
            /\ LET row == reports[Len(reports)]
               IN  /\ row.disaster_type = Selected(p[2].arg)
                   /\ row.severity = Selected(p[3].arg)
                   /\ row.latitude = p[4].arg.latitude
                   /\ row.longitude = p[4].arg.longitude
                   /\ row.description = p[5].arg
                   /\ row.photos =
                          json_dumps([i \in 1..(n - 6) |->
                                         [file_id |-> p[5 + i].arg,
                                          file_path |-> file_path(p[5 + i].arg)]])
                   /\ row.status = "Pending"

\* C6's case: a Standard path with two different photos was accepted.
C6_Witness ==
    \E u \in Users :
        /\ Len(std[u]) = 8
        /\ std[u][8].kind = "submit"
        /\ std[u][6].arg # std[u][7].arg
        /\ last.status = 201
        /\ Len(reports) = 1

\* C7: the alert trigger was called exactly once for every stored report of
\* severity 'Critical' and never for a stored report of another severity.
C7_OneAlertCallPerCriticalReport ==
    LET critical == SelectSeq(reports, LAMBDA r : r.severity = "Critical")
    IN  alert_calls = [i \in 1..Len(critical) |-> critical[i].id]

\* C7's case: a 'Critical' report was created.
C7_Witness ==
    /\ last.status = 201
    /\ Len(reports) = 1
    /\ reports[1].severity = "Critical"
    /\ Len(alert_calls) = 1

\* C8: when the alert trigger fails for a 'Critical' report whose insert
\* succeeded, the create operation still answers 201 with the report's id and
\* the report is stored.
C8_AlertFailureKeepsSubmission ==
    (last.alert = "fail") =>
        /\ last.status = 201
        /\ last.reply = "report_submitted"
        /\ last.id # <<>>
        /\ \E i \in DOMAIN reports :
               reports[i].id = last.id[1] /\ reports[i].severity = "Critical"

\* C8's case: the insert of a 'Critical' report succeeded and its alert failed.
C8_Witness ==
    /\ last.alert = "fail"
    /\ Len(reports) = 1
    /\ Len(alert_calls) = 1
    /\ emergency_alerts = <<>>

\* The updates addressed to the dialog.
DialogKinds == {"callback", "location", "message", "submit", "photo", "photo_lost"}

\* C9: a session left without an update for longer than the expiry window is
\* gone: the next update of the dialog finds no session, and neither resumes
\* the old draft nor submits it.
C9_IdleSessionUnreachable ==
    (last.kind \in DialogKinds /\ last.pre # "none" /\ last.idle > ExpiryWindow) =>
        /\ last.reply \in NoSessionReplies \cup {"none"}
        /\ last.request = <<>>
        /\ last.user \notin DOMAIN user_sessions

\* C10: an update that is not a start, from a user who has no session, leaves
\* the session store as it was and sends nothing to the backend's
\* report-create endpoint.
C10_NoSessionNoEffect ==
    [][ \A u \in Users :
          ( /\ UpdateOf(u)
            /\ u \notin DOMAIN user_sessions
            /\ ~ IsStart(last'.kind) ) =>
          ( /\ user_sessions' = user_sessions
            /\ last'.request = <<>>
            /\ reports' = reports )
      ]_vars

\* C10's case: 'Submit Report' came from a user who has no session.
C10_Witness ==
    /\ last.kind = "message"
    /\ last.arg = "Submit Report"
    /\ last.pre = "none"
    /\ last.reply = "use_start"
    /\ user_sessions = <<>>

\* The fields of a draft that the dialog fills in.
DraftFields == {"disaster_type", "severity", "latitude", "longitude",
                "description", "photos"}

\* C11: a start from a user who already has a session replaces that session:
\* the step is the first step of the mode started, and the draft holds none of
\* the dialog's fields but, after an emergency start, disaster_type 'Emergency'
\* and severity 'Critical'.
C11_StartReplacesSession ==
    \A u \in Users :
        (last.user = u /\ IsStart(last.kind) /\ last.pre # "none") =>
            /\ u \in DOMAIN user_sessions
            /\ LET session == user_sessions[u]
                   draft == session.report_data
               IN  IF last.kind = "report"
                   THEN /\ session.step = "disaster_type"
                        /\ DOMAIN draft \cap DraftFields = {}
                   ELSE /\ session.step = "emergency_location"
                        /\ DOMAIN draft \cap DraftFields = {"disaster_type", "severity"}
                        /\ draft["disaster_type"] = "Emergency"
                        /\ draft["severity"] = "Critical"

\* C11's case: a Standard start came while a session waited at step 'photos'.
C11_Witness ==
    /\ last.kind = "report"
    /\ last.pre = "photos"
    /\ last.user \in DOMAIN user_sessions
    /\ user_sessions[last.user].step = "disaster_type"

\* C12: a submission answered 201 leaves the user without a session, and the
\* update that follows it, unless it is a start, is handled as one from a user
\* who has no session: nothing is sent, nothing is stored, no session appears.
C12_NoSessionAfterSuccess ==
    [][ /\ (last'.request # <<>> /\ last'.status = 201) =>
              last'.user \notin DOMAIN user_sessions'
        /\ \A u \in Users :
              ( /\ last.user = u /\ last.request # <<>> /\ last.status = 201
                /\ UpdateOf(u)
                /\ ~ IsStart(last'.kind) ) =>
              ( /\ last'.pre = "none"
                /\ last'.request = <<>>
                /\ reports' = reports
                /\ u \notin DOMAIN user_sessions'
                /\ last'.kind \in {"callback", "location", "message"} =>
                       last'.reply \in NoSessionReplies )
      ]_vars

\* C12's case: a submission has just been answered 201.
C12_Witness ==
    /\ last.request # <<>>
    /\ last.status = 201
    /\ last.reply = "report_submitted"
    /\ last.user \notin DOMAIN user_sessions

\* Whether every value of a draft was supplied by the user whose user_id it
\* carries.
OwnValues(draft) ==
    /\ draft["user_id"] \in TwoUsers
    /\ LET own == Supplied(draft["user_id"])
       IN  /\ draft["username"] = username(draft["user_id"])
           /\ "disaster_type" \in DOMAIN draft =>
                  \E data \in own.data :
                      data[1] = "type_" /\ draft["disaster_type"] = Selected(data)
           /\ "severity" \in DOMAIN draft =>
                  \E data \in own.data :
                      data[1] = "severity_" /\ draft["severity"] = Selected(data)
           /\ "latitude" \in DOMAIN draft =>
                  draft["latitude"] = own.location.latitude
           /\ "longitude" \in DOMAIN draft =>
                  draft["longitude"] = own.location.longitude
           /\ "description" \in DOMAIN draft =>
                  draft["description"] \in own.texts
           /\ "photos" \in DOMAIN draft =>
                  \A i \in DOMAIN draft["photos"] :
                      draft["photos"][i].file_id = own.file_id

\* C13: of two users with sessions, an update of one never changes the other's
\* step or draft, whatever the order of their updates, and every draft sent to
\* the backend holds only values supplied by the user whose user_id it carries.
C13_SessionsIsolated ==
    [][ /\ \A a \in TwoUsers, b \in TwoUsers :
              (a # b /\ UpdateOf(a)) =>
                  /\ (b \in DOMAIN user_sessions') = (b \in DOMAIN user_sessions)
                  /\ b \in DOMAIN user_sessions =>
                         user_sessions'[b] = user_sessions[b]
        /\ last'.request # <<>> =>
              /\ last'.request[1]["user_id"] = last'.user
              /\ OwnValues(last'.request[1])
      ]_vars

\* C13's case: one user's full draft was sent while the other user's session
\* waited at step 'photos' with a photo in its draft.
C13_Witness ==
    /\ last.user = 1001
    /\ last.request # <<>>
    /\ DraftFields \subseteq DOMAIN last.request[1]
    /\ 1002 \in DOMAIN user_sessions
    /\ user_sessions[1002].step = "photos"
    /\ "photos" \in DOMAIN user_sessions[1002].report_data

\* C14: a create request that reached the backend without user_id,
\* disaster_type, severity, latitude or longitude is answered 400 and nothing
\* is inserted, whatever the step of the session it came from; so no report
\* is stored without latitude and longitude.
C14_IncompleteRequestRejected ==
    [][ ( /\ last'.request # <<>>
          /\ last'.status # -1
          /\ \E f \in {"user_id", "disaster_type", "severity", "latitude", "longitude"} :
                 f \notin DOMAIN last'.request[1] ) =>
        ( /\ last'.status = 400
          /\ reports' = reports
          /\ emergency_alerts' = emergency_alerts
          /\ alert_calls' = alert_calls )
      ]_vars

\* C14's case: the bot posted a draft that has a type and a severity and no
\* coordinates, and the backend answered 400.
C14_Witness ==
    /\ last.kind = "submit"
    /\ last.pre = "location"
    /\ last.request # <<>>
    /\ {"disaster_type", "severity"} \subseteq DOMAIN last.request[1]
    /\ "latitude" \notin DOMAIN last.request[1]
    /\ last.status = 400

\* C15: every stored report has a severity among the four severity levels and
\* a disaster_type among the eight disaster types or 'Emergency', whatever
\* payload 'type_<x>' or 'severity_<x>' a callback carried.
C15_StoredEnumsValid ==
    \A i \in DOMAIN reports :
        /\ reports[i].severity \in Range(SEVERITY_LEVELS)
        /\ reports[i].disaster_type \in Range(DISASTER_TYPES) \cup {"Emergency"}

\* A draft of the Emergency mode: it carries the type an emergency start
\* fills in.
IsEmergencyDraft(draft) ==
    "disaster_type" \in DOMAIN draft /\ draft["disaster_type"] = "Emergency"

\* C16: the bot posts a draft only when its latitude and longitude are set
\* and, unless it is a draft of the Emergency mode, its disaster_type,
\* severity and description are set too.
C16_OnlyCompleteDraftsPosted ==
    (last.request # <<>> /\ last.user \in Users) =>
        LET draft == last.request[1]
        IN  /\ {"latitude", "longitude"} \subseteq DOMAIN draft
            /\ ~ IsEmergencyDraft(draft) =>
                   {"disaster_type", "severity", "description"} \subseteq DOMAIN draft

\* Whether a location lies outside the ranges of a latitude and a longitude.
OutOfRange(location) ==
    \/ location.latitude < -90 \/ location.latitude > 90
    \/ location.longitude < -180 \/ location.longitude > 180

\* C17: a location whose latitude is outside [-90, 90] or whose longitude is
\* outside [-180, 180] is rejected: the session's step and the draft's
\* latitude and longitude stay as they were.  Stated for the sessions that
\* wait for a location, where nothing but the range can reject it.
C17_OutOfRangeLocationRejected ==
    [][ \A u \in Users :
          ( /\ UpdateOf(u)
            /\ u \in DOMAIN user_sessions
            /\ user_sessions[u].step \in {"location", "emergency_location"}
            /\ last'.kind = "location"
            /\ OutOfRange(last'.arg) ) =>
          ( /\ u \in DOMAIN user_sessions'
            /\ user_sessions'[u].step = user_sessions[u].step
            /\ \A f \in {"latitude", "longitude"} :
                   /\ (f \in DOMAIN user_sessions'[u].report_data)
                          = (f \in DOMAIN user_sessions[u].report_data)
                   /\ f \in DOMAIN user_sessions[u].report_data =>
                          user_sessions'[u].report_data[f]
                              = user_sessions[u].report_data[f] )
      ]_vars

\* The text of the update handled last, when it was a text message: a text of
\* the dialog, or a menu label (which the bot takes for a command).
IsText(l) ==
    \/ l.kind \in {"message", "submit"}
    \/ l.kind \in {"report", "emergency", "help", "status"} /\ l.arg \in MenuLabels

\* What a session at step 'description' becomes when a text is accepted as
\* the description.
Described(session, text) ==
    [step |-> "photos",
     report_data |-> Put(session.report_data, "description",
                         IF text = "Skip Description"
                         THEN "No description provided" ELSE text)]

\* C18 as stated: at step 'description' any text message is accepted as the
\* description ('Skip Description' as 'No description provided', any other
\* text as it is), the step becomes 'photos' and no other field changes.
C18_AnyTextAccepted ==
    [][ \A u \in Users :
          ( /\ UpdateOf(u)
            /\ u \in DOMAIN user_sessions
            /\ user_sessions[u].step = "description"
            /\ IsText(last') ) =>
          ( /\ u \in DOMAIN user_sessions'
            /\ user_sessions'[u] = Described(user_sessions[u], last'.arg) )
      ]_vars

\* C18, amended: at step 'description' any text message but the four menu
\* labels is accepted as the description; a menu label is handled as the
\* command it stands for and stores no description.
C18_NonMenuTextAccepted ==
    [][ \A u \in Users :
          ( /\ UpdateOf(u)
            /\ u \in DOMAIN user_sessions
            /\ user_sessions[u].step = "description"
            /\ IsText(last') ) =>
          IF last'.arg \in MenuLabels
          THEN /\ last'.kind \in {"report", "emergency", "help", "status"}
               /\ u \in DOMAIN user_sessions'
               /\ Get(user_sessions'[u].report_data, "description", "")
                      \notin MenuLabels
          ELSE /\ u \in DOMAIN user_sessions'
               /\ user_sessions'[u] = Described(user_sessions[u], last'.arg)
      ]_vars

\* C18's case: 'Skip Description' was sent at step 'description'.
C18_Witness ==
    /\ last.kind = "message"
    /\ last.arg = "Skip Description"
    /\ last.pre = "description"
    /\ last.user \in DOMAIN user_sessions
    /\ user_sessions[last.user].step = "photos"
    /\ user_sessions[last.user].report_data["description"] = "No description provided"

\* C19: at step 'photos' a photo adds exactly one entry, its own, at the end
\* of the draft's photo list, the step stays 'photos' and no other field of
\* the draft changes; at any other step a photo leaves the session as it was.
C19_PhotoAppended ==
    [][ \A u \in Users :
          ( /\ UpdateOf(u)
            /\ u \in DOMAIN user_sessions
            /\ last'.kind = "photo" ) =>
          /\ u \in DOMAIN user_sessions'
          /\ LET old == user_sessions[u].report_data
                 new == user_sessions'[u].report_data
                 before == Get(old, "photos", <<>>)
             IN  IF user_sessions[u].step = "photos"
                 THEN /\ user_sessions'[u].step = "photos"
                      /\ DOMAIN new = DOMAIN old \cup {"photos"}
                      /\ \A f \in DOMAIN old : f # "photos" => new[f] = old[f]
                      /\ Len(new["photos"]) = Len(before) + 1
                      /\ SubSeq(new["photos"], 1, Len(before)) = before
                      /\ new["photos"][Len(before) + 1].file_id = last'.arg
                 ELSE user_sessions'[u] = user_sessions[u]
      ]_vars

\* C19's case: a second photo, different from the first, arrived at step
\* 'photos'.
C19_Witness ==
    /\ last.kind = "photo"
    /\ last.pre = "photos"
    /\ last.arg = "p1"
    /\ last.user \in DOMAIN user_sessions
    /\ LET draft == user_sessions[last.user].report_data
       IN  /\ "photos" \in DOMAIN draft
           /\ Len(draft["photos"]) = 2
           /\ draft["photos"][1].file_id = "p2"
           /\ draft["photos"][2].file_id = "p1"

\* C20: the draft of every session agrees with its step: at step 'severity'
\* the disaster_type is set; at step 'location' the disaster_type and the
\* severity are set; at step 'description' the latitude and the longitude are
\* set; at step 'photos' the description is set.
C20_DraftAgreesWithStep ==
    \A u \in DOMAIN user_sessions :
        LET step == user_sessions[u].step
            set == DOMAIN user_sessions[u].report_data
        IN  /\ step = "severity" => "disaster_type" \in set
            /\ step = "location" => {"disaster_type", "severity"} \subseteq set
            /\ step = "description" => {"latitude", "longitude"} \subseteq set
            /\ step = "photos" => "description" \in set

\* C25: at step 'photos' a text that is neither 'Submit Report' nor a menu
\* label, the offered 'Skip Photos' among them, leaves the session's step and
\* draft as they were and sends nothing to the backend.
C25_OtherTextAtPhotosIgnored ==
    [][ \A u \in Users :
          ( /\ UpdateOf(u)
            /\ u \in DOMAIN user_sessions
            /\ user_sessions[u].step = "photos"
            /\ IsText(last')
            /\ last'.arg \notin MenuLabels \cup {"Submit Report"} ) =>
          ( /\ u \in DOMAIN user_sessions'
            /\ user_sessions'[u] = user_sessions[u]
            /\ last'.request = <<>>
            /\ reports' = reports )
      ]_vars

\* C25's case: 'Skip Photos' was sent at step 'photos'.
C25_Witness ==
    /\ last.kind = "message"
    /\ last.arg = "Skip Photos"
    /\ last.pre = "photos"
    /\ last.request = <<>>
    /\ last.user \in DOMAIN user_sessions
    /\ user_sessions[last.user].step = "photos"

\* C22: a session yields at most one request to the backend's report-create
\* endpoint: the request comes from a session, stores at most one report and
\* ends that session, and a 'Submit Report' delivered again right after it
\* finds no session, sends nothing and stores nothing.
C22_OneRequestPerSession ==
    [][ \A u \in Users :
          /\ (UpdateOf(u) /\ last'.request # <<>>) =>
                /\ u \in DOMAIN user_sessions
                /\ last'.request[1] = user_sessions[u].report_data
                /\ u \notin DOMAIN user_sessions'
                /\ Len(reports') <= Len(reports) + 1
          /\ ( /\ last.user = u /\ last.request # <<>>
               /\ UpdateOf(u)
               /\ IsText(last') /\ last'.arg = "Submit Report" ) =>
                /\ last'.pre = "none"
                /\ last'.request = <<>>
                /\ reports' = reports
                /\ u \notin DOMAIN user_sessions'
      ]_vars

\* C22's case: 'Submit Report' was delivered a second time right after the
\* report of the session was stored.
C22_Witness ==
    /\ last.kind = "message"
    /\ last.arg = "Submit Report"
    /\ last.pre = "none"
    /\ last.reply = "use_start"
    /\ Len(reports) = 1
    /\ reports[1].user_id = str(last.user)

\* C23: the alert trigger is called only after the insert of the report has
\* succeeded: a request that stores no report, rejected for a missing field
\* or failed at the insert, calls no alert whatever its severity, and an alert
\* call names a report stored by the same request.
C23_AlertOnlyAfterInsert ==
    [][ /\ reports' = reports =>
              /\ alert_calls' = alert_calls
              /\ emergency_alerts' = emergency_alerts
        /\ alert_calls' # alert_calls =>
              /\ Len(reports') = Len(reports) + 1
              /\ alert_calls' = Append(alert_calls, reports'[Len(reports')].id)
              /\ last'.status = 201
      ]_vars

\* C23's case: the insert of a 'Critical' report failed, and no alert was
\* called.
C23_Witness ==
    /\ last.request # <<>>
    /\ {"severity", "latitude", "longitude"} \subseteq DOMAIN last.request[1]
    /\ last.request[1]["severity"] = "Critical"
    /\ last.status = 500
    /\ reports = <<>>
    /\ alert_calls = <<>>

\* The four statuses of a report.
ReportStatuses == {"Pending", "In Progress", "Resolved", "Cancelled"}

\* C24: the status of every stored report is one of 'Pending', 'In Progress',
\* 'Resolved' and 'Cancelled': a report is created 'Pending', and a
\* status-update request whose status is absent or not one of the four is
\* answered 400 and leaves the stored reports as they were.
C24_StatusAlwaysValid ==
    [][ /\ \A i \in DOMAIN reports' : reports'[i].status \in ReportStatuses
        /\ Len(reports') > Len(reports) =>
              reports'[Len(reports')].status = "Pending"
        /\ ( /\ last'.kind = "api_status"
             /\ \/ "status" \notin DOMAIN last'.arg.data
                \/ last'.arg.data["status"] \notin ReportStatuses ) =>
              /\ last'.status = 400
              /\ reports' = reports
      ]_vars

\* C24's case: a stored report whose status had been updated was asked to
\* take a status outside the four, and the request was answered 400.
C24_Witness ==
    /\ last.kind = "api_status"
    /\ "status" \in DOMAIN last.arg.data
    /\ last.arg.data["status"] = "Deleted"
    /\ last.status = 400
    /\ Len(reports) = 1
    /\ reports[1].id = last.arg.report_id
    /\ reports[1].status = "Resolved"

\* The file ids of the photos a draft holds, in order.
PhotoFileIds(draft) ==
    LET photos == Get(draft, "photos", <<>>)
    IN  [i \in DOMAIN photos |-> photos[i].file_id]

====
